---- MODULE Spec2Model ----
(***************************************************************************)
(* Signed media URL generator (server.js): the in-memory token store       *)
(* urlStore and the four handlers that read or change it:                  *)
(*   GET /api/generate-signed-url   (mint)                                 *)
(*   GET /media/*                   (redeem)                               *)
(*   GET /api/validate-token                                               *)
(*   GET /api/stats                                                        *)
(* Node runs each handler to completion, so a handler is one action.  The  *)
(* wall clock (Date.now(), milliseconds) is a variable that advances       *)
(* between handlers and between the clock reads inside the mint handler.   *)
(* Strings are sequences of one-character strings, so that the regular     *)
(* expressions, parseInt and the hex encoding are computed, not assumed.   *)
(* Line numbers refer to the second copy of the program in server.js       *)
(* (from line 226 on), the one that has the /media route.                  *)
(***************************************************************************)
EXTENDS Integers, Sequences, FiniteSets, TLC

VARIABLES
  urlStore,     \* the Map of line 238: token -> {filePath, userId, expires, createdAt}
  now,          \* what Date.now() returns, in ms
  res,          \* the response of the request being handled ("none": idle)
  issued,       \* history: token -> expiresAt, for every token a mint returned
  expiredSeen,  \* history: the tokens a redeem answered with TokenExpired
  ticks,        \* number of clock advances so far
  sweep         \* the position of the cleanup loop of lines 320-324 when it is
                \* followed step by step ("idle": the loop is one step of the mint)

vars == <<urlStore, now, res, issued, expiredSeen, ticks, sweep>>

(* ------------------------------ bounds -------------------------------- *)

\* number of values the entropy source can deliver (mints that get a token)
MaxMints == 2

\* number of clock advances between handlers
MaxTicks == 1

\* number of older entries the cleanup loop finds when it is followed step
\* by step
MaxSwept == 3

(* ------------------------- program constants -------------------------- *)

\* crypto.randomBytes(32)
TokenBytes == 32

\* Date.now() / 1000
MsPerSec == 1000

\* 2 * 60 seconds
TtlSeconds == 120

\* {3,50} of userIdRegex
UserIdMinLen == 3

UserIdMaxLen == 50

(* ----------------------------- characters ----------------------------- *)

LowerSeq == <<"a","b","c","d","e","f","g","h","i","j","k","l","m",
              "n","o","p","q","r","s","t","u","v","w","x","y","z">>

UpperSeq == <<"A","B","C","D","E","F","G","H","I","J","K","L","M",
              "N","O","P","Q","R","S","T","U","V","W","X","Y","Z">>

DigitSeq == <<"0","1","2","3","4","5","6","7","8","9">>

HexSeq == <<"0","1","2","3","4","5","6","7","8","9","a","b","c","d","e","f">>

Range(s) == {s[i] : i \in DOMAIN s}

Letters == Range(LowerSeq) \cup Range(UpperSeq)

Digits == Range(DigitSeq)

\* position of character c in sequence s (0 when absent)
IndexOf(c, s) == IF c \in Range(s) THEN CHOOSE i \in DOMAIN s : s[i] = c ELSE 0

\* case folding of the /i flag
ToLower(c) == IF c \in Range(UpperSeq) THEN LowerSeq[IndexOf(c, UpperSeq)] ELSE c

LowerStr(s) == [i \in DOMAIN s |-> ToLower(s[i])]

(* --------------------------- query parameters -------------------------- *)

\* a query parameter is either absent (undefined) or a string
Absent == [present |-> FALSE, val |-> <<>>]

Param(s) == [present |-> TRUE, val |-> s]

\* JavaScript !p for an undefined or string value
Falsy(p) == (~p.present) \/ p.val = <<>>

(* ------------------------------ numbers -------------------------------- *)

\* a JavaScript number: NaN, an integer val, or (big = 1 or -1) a value
\* whose magnitude is beyond the range of Date (8.64e15 ms)
NaN == [nan |-> TRUE, big |-> 0, val |-> 0]

Num(n) == [nan |-> FALSE, big |-> 0, val |-> n]

Big(sign) == [nan |-> FALSE, big |-> sign, val |-> 0]

\* a > b on JavaScript numbers: false as soon as one side is NaN
JsGreater(a, b) ==
  /\ ~a.nan
  /\ ~b.nan
  /\ IF a.big # b.big THEN a.big > b.big ELSE (a.big = 0 /\ a.val > b.val)

\* a - b on JavaScript numbers (b is never big in the model)
JsMinus(a, b) ==
  IF a.nan \/ b.nan THEN NaN
  ELSE IF a.big # 0 THEN a
  ELSE Num(a.val - b.val)

\* new Date(seconds * 1000).toISOString() throws RangeError for an invalid
\* time value: NaN or beyond the range of Date
ToISOStringThrows(seconds) == seconds.nan \/ seconds.big # 0

\* Math.floor(ms / 1000)
FloorSeconds(ms) == ms \div MsPerSec

RECURSIVE NumToStr(_)
\* decimal text of a natural number, as `${expires}` writes it into the URL
NumToStr(n) ==
  IF n < 10 THEN <<DigitSeq[n + 1]>>
  ELSE NumToStr(n \div 10) \o <<DigitSeq[(n % 10) + 1]>>

RECURSIVE SkipSpaces(_)
SkipSpaces(s) == IF s # <<>> /\ s[1] = " " THEN SkipSpaces(Tail(s)) ELSE s

RECURSIVE DigitPrefixLen(_)
\* number of leading decimal digits of s
DigitPrefixLen(s) ==
  IF s # <<>> /\ s[1] \in Digits THEN 1 + DigitPrefixLen(Tail(s)) ELSE 0

RECURSIVE DigitsValue(_)
DigitsValue(s) ==
  IF s = <<>> THEN 0
  ELSE 10 * DigitsValue(SubSeq(s, 1, Len(s) - 1)) + (IndexOf(s[Len(s)], DigitSeq) - 1)

RECURSIVE SkipZeros(_)
SkipZeros(s) == IF s # <<>> /\ s[1] = "0" THEN SkipZeros(Tail(s)) ELSE s

\* digits from which a decimal number is beyond the range of Date in
\* seconds (8.64e12 has 13 digits)
BigDigits == 14

\* parseInt(text): leading blanks, an optional sign, then the longest run of
\* decimal digits; NaN when there is no digit.  (A 0x prefix is not
\* modelled; no input of the model carries one.)
parseInt(text) ==
  LET t    == SkipSpaces(text)
      neg  == t # <<>> /\ t[1] = "-"
      body == IF t # <<>> /\ t[1] \in {"+", "-"} THEN Tail(t) ELSE t
      n    == DigitPrefixLen(body)
      sig  == SkipZeros(SubSeq(body, 1, n))
  IN IF n = 0 THEN NaN
     ELSE IF Len(sig) >= BigDigits THEN Big(IF neg THEN 0 - 1 ELSE 1)
     ELSE Num(IF neg THEN 0 - DigitsValue(sig) ELSE DigitsValue(sig))

(* ------------------------------- tokens -------------------------------- *)

\* two lowercase hex digits of one byte
HexByte(b) == <<HexSeq[(b \div 16) + 1], HexSeq[(b % 16) + 1]>>

RECURSIVE ToHex(_)
\* Buffer.toString('hex')
ToHex(bytes) == IF bytes = <<>> THEN <<>> ELSE HexByte(bytes[1]) \o ToHex(Tail(bytes))

\* the buffers crypto.randomBytes(32) delivers in the model, in the order of
\* delivery: MaxMints pairwise different 32-byte buffers
EntropyStream == [k \in 1..MaxMints |-> [i \in 1..TokenBytes |-> (37 * k + i) % 256]]

\* faulty variant: the token is made of a zeroed buffer, not of the random one
ZeroBufferToken(bytes) == ToHex([i \in DOMAIN bytes |-> 0])

\* generateToken() on the buffer the entropy source delivered
generateToken(bytes) == ToHex(bytes)

\* the token strings generateToken can return
TokenPool == {generateToken(EntropyStream[k]) : k \in 1..MaxMints}

\* faulty variant: the division by 1000 is missing
MsExpiryTimestamp(ms) == ms + TtlSeconds

\* getExpiryTimestamp() when Date.now() returns ms
getExpiryTimestamp(ms) == FloorSeconds(ms) + TtlSeconds

(* ----------------------------- validation ------------------------------ *)

\* [a-zA-Z0-9\/\-_.]
PathChars == Letters \cup Digits \cup {"/", "-", "_", "."}

\* (mp4|mp3|wav|avi|mov|pdf|jpg|jpeg|png)
Extensions == { <<"m","p","4">>, <<"m","p","3">>, <<"w","a","v">>,
                <<"a","v","i">>, <<"m","o","v">>, <<"p","d","f">>,
                <<"j","p","g">>, <<"j","p","e","g">>, <<"p","n","g">> }

\* pathRegex.test(filePath):
\*   /^\/[a-zA-Z0-9\/\-_.]+\.(mp4|mp3|wav|avi|mov|pdf|jpg|jpeg|png)$/i
isValidFilePath(filePath) ==
  /\ Len(filePath) >= 1
  /\ filePath[1] = "/"
  /\ \E e \in Extensions :
       LET k == Len(filePath) - Len(e) - 1   \* last character before the dot
       IN /\ k >= 2
          /\ filePath[k + 1] = "."
          /\ LowerStr(SubSeq(filePath, k + 2, Len(filePath))) = e
          /\ \A i \in 2..k : filePath[i] \in PathChars

\* [a-zA-Z0-9_]
UserIdChars == Letters \cup Digits \cup {"_"}

\* userIdRegex.test(userId):  /^[a-zA-Z0-9_]{3,50}$/
isValidUserId(userId) ==
  /\ Len(userId) >= UserIdMinLen
  /\ Len(userId) <= UserIdMaxLen
  /\ \A i \in DOMAIN userId : userId[i] \in UserIdChars

(* ---------------------------- request path ----------------------------- *)

MediaPrefix == <<"/","m","e","d","i","a">>

\* first position at which needle occurs in s (0 when it does not)
FirstIndexOf(needle, s) ==
  LET hits == {i \in 1..(Len(s) - Len(needle) + 1) :
                 SubSeq(s, i, i + Len(needle) - 1) = needle}
  IN IF hits = {} THEN 0 ELSE CHOOSE i \in hits : \A j \in hits : i <= j

\* req.path.replace('/media', ''): the first occurrence is removed
StripMedia(path) ==
  LET i == FirstIndexOf(MediaPrefix, path)
  IN IF i = 0 THEN path
     ELSE SubSeq(path, 1, i - 1) \o SubSeq(path, i + Len(MediaPrefix), Len(path))

(* ------------------------------- inputs -------------------------------- *)

\* filePath query parameters offered to the mint endpoint
MintPaths ==
  { Absent,
    Param(<<>>),
    Param(<<"/","a",".","m","p","4">>),
    Param(<<"/","b",".","P","N","G">>),
    Param(<<"a",".","m","p","4">>),
    Param(<<"/","a",".","t","x","t">>) }

\* userId query parameters offered to the mint endpoint
MintUsers ==
  { Absent,
    Param(<<"u","_","1">>),
    Param(<<"a","b">>),
    Param(<<"a","-","b","1">>),
    Param([i \in 1..(UserIdMaxLen + 1) |-> "a"]) }

\* time the clock may advance between the first and the second, and between
\* the second and the third clock read of one mint call (ms)
InCallDelays == {<<0, 0>>, <<500, 0>>}

\* time the clock may advance between two handlers (ms)
TickSteps == {120000}

\* what crypto.randomBytes(32) can do in a mint: throw, or deliver the next
\* buffer of the stream (given: the tokens made of the buffers delivered)
EntropyFailure == [ok |-> FALSE, bytes |-> <<>>]

EntropyOutcomes(given) ==
  {EntropyFailure} \cup
  {[ok |-> TRUE, bytes |-> EntropyStream[k]] : k \in {Cardinality(given) + 1} \cap 1..MaxMints}

\* request paths offered to the media endpoint
MediaPaths ==
  { MediaPrefix \o <<"/","a",".","m","p","4">>,
    MediaPrefix \o <<"/","b",".","P","N","G">> }

\* userId query parameters offered to the media endpoint
MediaUsers == { Absent, Param(<<"u","_","1">>), Param(<<"U","0","2">>) }

\* token query parameters offered to the media and validate-token endpoints:
\* none, a string no mint returned, and the tokens the mints returned
TokenParams(given) == {Absent, Param(<<"z","z">>)} \cup {Param(t) : t \in given}

\* expires query parameters offered to the media endpoint: none, the value
\* in the signed URL of a token, an earlier and a later value, text that is
\* not a number, and a value outside the range of Date
ExpiresParams(links) ==
  { Absent,
    Param(<<"0">>),
    Param(<<"9","9","9","9">>),
    Param(<<"a","b","c">>),
    Param(<<"-">> \o [i \in 1..BigDigits |-> "9"]) }
  \cup {Param(NumToStr(links[t])) : t \in DOMAIN links}

\* the media requests offered in a state
MediaRequests(links) ==
  [token : TokenParams(DOMAIN links), expires : ExpiresParams(links),
   userId : MediaUsers, path : MediaPaths]

(* ---------------------------- the handlers ----------------------------- *)

\* faulty variant: delete also removes the other entries of the same binding
BindingMapDelete(store, key) ==
  [t \in {k \in DOMAIN store : \/ store[k].filePath # store[key].filePath
                               \/ store[k].userId # store[key].userId} |-> store[t]]

\* Map.delete(key)
MapDelete(store, key) == [t \in (DOMAIN store) \ {key} |-> store[t]]

\* faulty variant: every key is made to share the value object just written
SharedValueMapSet(store, key, value) ==
  [t \in (DOMAIN store) \cup {key} |-> value]

\* Map.set(key, value)
MapSet(store, key, value) ==
  [t \in (DOMAIN store) \cup {key} |-> IF t = key THEN value ELSE store[t]]

\* faulty variant: the two checks of userId are missing
PathOnlyMintValidation(filePath, userId) ==
  IF Falsy(filePath) THEN [kind |-> "MissingField", field |-> "filePath"]
  ELSE IF ~isValidFilePath(filePath.val) THEN [kind |-> "InvalidFormat", field |-> "filePath"]
  ELSE [kind |-> "Ok", field |-> "none"]

\* faulty variant: the shape of filePath is tested before the presence of userId
FormatFirstMintValidation(filePath, userId) ==
  IF Falsy(filePath) THEN [kind |-> "MissingField", field |-> "filePath"]
  ELSE IF ~isValidFilePath(filePath.val) THEN [kind |-> "InvalidFormat", field |-> "filePath"]
  ELSE IF Falsy(userId) THEN [kind |-> "MissingField", field |-> "userId"]
  ELSE IF ~isValidUserId(userId.val) THEN [kind |-> "InvalidFormat", field |-> "userId"]
  ELSE [kind |-> "Ok", field |-> "none"]

\* lines 269-298: the four checks of the mint endpoint, in source order
MintValidation(filePath, userId) ==
  IF Falsy(filePath) THEN [kind |-> "MissingField", field |-> "filePath"]
  ELSE IF Falsy(userId) THEN [kind |-> "MissingField", field |-> "userId"]
  ELSE IF ~isValidFilePath(filePath.val) THEN [kind |-> "InvalidFormat", field |-> "filePath"]
  ELSE IF ~isValidUserId(userId.val) THEN [kind |-> "InvalidFormat", field |-> "userId"]
  ELSE [kind |-> "Ok", field |-> "none"]

\* faulty variant: the cleanup loop also deletes the entries that expire in
\* the current second
LaxSweepDeletes(value, currentTime) == value.expires <= currentTime

\* faulty variant: the comparison of the cleanup loop is inverted
InvertedSweepDeletes(value, currentTime) == value.expires > currentTime

\* the test of the cleanup loop: value.expires < currentTime
SweepDeletes(value, currentTime) == value.expires < currentTime

\* lines 318-324: the cleanup loop over urlStore.entries()
SweepExpired(store, currentTime) ==
  [t \in {k \in DOMAIN store : ~SweepDeletes(store[k], currentTime)} |-> store[t]]

\* the record the mint endpoint stores under the token (lines 311-316)
MintEntry(filePath, userId, expires, createdAt) ==
  [filePath |-> filePath, userId |-> userId, expires |-> expires, createdAt |-> createdAt]

\* lines 300-337: the mint endpoint once the request has passed the checks
\* and generateToken() has returned.  The handler reads the clock three
\* times: in getExpiryTimestamp(), for createdAt and for the cleanup loop;
\* d1 and d2 are the time that passes between the reads.
MintAccept(filePath, userId, bytes, d1, d2) ==
  LET token       == generateToken(bytes)
      expires     == getExpiryTimestamp(now)
      createdAt   == now + d1
      currentTime == FloorSeconds(now + d1 + d2)
      stored      == MapSet(urlStore, token,
                            MintEntry(filePath.val, userId.val, expires, createdAt))
  IN /\ urlStore' = SweepExpired(stored, currentTime)
     /\ now' = now + d1 + d2
     /\ issued' = MapSet(issued, token, expires)
     /\ res' = [op |-> "mint", req |-> [filePath |-> filePath, userId |-> userId],
                status |-> 200, kind |-> "Minted", field |-> "none",
                token |-> token, expiresAt |-> expires,
                filePath |-> filePath.val, userId |-> userId.val]

\* the 400 and 500 responses of the mint endpoint
MintFailure(filePath, userId, status, kind, field) ==
  [op |-> "mint", req |-> [filePath |-> filePath, userId |-> userId],
   status |-> status, kind |-> kind, field |-> field]

\* faulty variant: when generateToken() throws, the handler goes on with a
\* token made of a zeroed buffer
WeakFallbackGenerateSignedUrl(filePath, userId, entropy, d1, d2) ==
  LET v == MintValidation(filePath, userId)
  IN
  /\ res.op = "none"
  /\ UNCHANGED <<ticks, expiredSeen, sweep>>
  /\ IF v.kind # "Ok"
     THEN /\ res' = MintFailure(filePath, userId, 400, v.kind, v.field)
          /\ UNCHANGED <<urlStore, now, issued>>
     ELSE IF ~entropy.ok
     THEN MintAccept(filePath, userId, [i \in 1..TokenBytes |-> 0], d1, d2)
     ELSE MintAccept(filePath, userId, entropy.bytes, d1, d2)

\* faulty variant: the cleanup loop also runs when a request is rejected
SweepFirstGenerateSignedUrl(filePath, userId, entropy, d1, d2) ==
  LET v == MintValidation(filePath, userId)
  IN
  /\ res.op = "none"
  /\ UNCHANGED <<ticks, expiredSeen, sweep>>
  /\ IF v.kind # "Ok"
     THEN /\ res' = MintFailure(filePath, userId, 400, v.kind, v.field)
          /\ urlStore' = SweepExpired(urlStore, FloorSeconds(now))
          /\ UNCHANGED <<now, issued>>
     ELSE IF ~entropy.ok
     THEN /\ res' = MintFailure(filePath, userId, 500, "InternalError", "none")
          /\ UNCHANGED <<urlStore, now, issued>>
     ELSE MintAccept(filePath, userId, entropy.bytes, d1, d2)

\* GET /api/generate-signed-url (lines 265-346); a throw of generateToken()
\* is caught at line 339
GenerateSignedUrl(filePath, userId, entropy, d1, d2) ==
  LET v == MintValidation(filePath, userId)
  IN
  /\ res.op = "none"
  /\ UNCHANGED <<ticks, expiredSeen, sweep>>
  /\ IF v.kind # "Ok"
     THEN /\ res' = MintFailure(filePath, userId, 400, v.kind, v.field)
          /\ UNCHANGED <<urlStore, now, issued>>
     ELSE IF ~entropy.ok
     THEN /\ res' = MintFailure(filePath, userId, 500, "InternalError", "none")
          /\ UNCHANGED <<urlStore, now, issued>>
     ELSE MintAccept(filePath, userId, entropy.bytes, d1, d2)

\* faulty variant: the operands of the expiry test are swapped
ReversedMediaExpired(currentTime, expiryTime, tokenData) ==
  JsGreater(expiryTime, Num(currentTime))

\* the expiry test of the media endpoint: currentTime > expiryTime, where
\* expiryTime is parsed from the request's expires parameter
MediaExpired(currentTime, expiryTime, tokenData) == JsGreater(Num(currentTime), expiryTime)

\* the binding test of the media endpoint (line 760)
MediaMismatch(tokenData, filePath, userId) ==
  tokenData.filePath # filePath \/ tokenData.userId # userId

\* faulty variant: the expires parameter is parsed and formatted before the
\* token is looked up, so that a throw of toISOString() precedes the lookup
ParseFirstMediaResult(store, ms, token, expires, userId, path) ==
  LET filePath    == StripMedia(path)
      currentTime == FloorSeconds(ms)
      expiryTime  == parseInt(expires.val)
      req         == [token |-> token, expires |-> expires, userId |-> userId,
                      filePath |-> filePath]
      Reply(st, status, kind, remaining) ==
        [store |-> st,
         res |-> [op |-> "redeem", req |-> req, status |-> status, kind |-> kind,
                  remaining |-> remaining]]
  IN
  IF Falsy(token) \/ Falsy(expires) \/ Falsy(userId)
    THEN Reply(store, 400, "MissingParameters", NaN)
  ELSE IF ToISOStringThrows(expiryTime)
    THEN Reply(store, 500, "InternalError", NaN)
  ELSE IF token.val \notin DOMAIN store
    THEN Reply(store, 401, "TokenNotFound", NaN)
  ELSE IF MediaExpired(currentTime, expiryTime, store[token.val])
    THEN Reply(MapDelete(store, token.val), 410, "TokenExpired", NaN)
  ELSE IF MediaMismatch(store[token.val], filePath, userId.val)
    THEN Reply(store, 403, "BindingMismatch", NaN)
  ELSE Reply(store, 200, "Granted", JsMinus(expiryTime, Num(currentTime)))

\* GET /media/*: the new store and the response, for a request at time ms
MediaResult(store, ms, token, expires, userId, path) ==
  LET filePath    == StripMedia(path)
      currentTime == FloorSeconds(ms)
      expiryTime  == parseInt(expires.val)
      req         == [token |-> token, expires |-> expires, userId |-> userId,
                      filePath |-> filePath]
      Reply(st, status, kind, remaining) ==
        [store |-> st,
         res |-> [op |-> "redeem", req |-> req, status |-> status, kind |-> kind,
                  remaining |-> remaining]]
  IN
  IF Falsy(token) \/ Falsy(expires) \/ Falsy(userId)
    THEN Reply(store, 400, "MissingParameters", NaN)
  ELSE IF token.val \notin DOMAIN store
    THEN Reply(store, 401, "TokenNotFound", NaN)
  ELSE IF MediaExpired(currentTime, expiryTime, store[token.val])
    THEN IF ToISOStringThrows(expiryTime)
           THEN Reply(MapDelete(store, token.val), 500, "InternalError", NaN)
           ELSE Reply(MapDelete(store, token.val), 410, "TokenExpired", NaN)
  ELSE IF MediaMismatch(store[token.val], filePath, userId.val)
    THEN Reply(store, 403, "BindingMismatch", NaN)
  ELSE IF ToISOStringThrows(expiryTime)
    THEN Reply(store, 500, "InternalError", NaN)
  ELSE Reply(store, 200, "Granted", JsMinus(expiryTime, Num(currentTime)))

Media(token, expires, userId, path) ==
  LET r == MediaResult(urlStore, now, token, expires, userId, path)
  IN /\ res.op = "none"
     /\ urlStore' = r.store
     /\ res' = r.res
     /\ expiredSeen' = IF r.res.kind = "TokenExpired"
                          THEN expiredSeen \cup {token.val} ELSE expiredSeen
     /\ UNCHANGED <<now, issued, ticks, sweep>>

\* faulty variant: a token that expires in the current second counts as expired
LaxValidateExpired(tokenData, currentTime) == tokenData.expires <= currentTime

\* the expiry test of the validate-token endpoint (line 379)
ValidateExpired(tokenData, currentTime) == tokenData.expires < currentTime

\* GET /api/validate-token
ValidateToken(token) ==
  LET currentTime == FloorSeconds(now)
      Reply(status, valid, reason, data) ==
        [op |-> "validate", req |-> [token |-> token], status |-> status,
         valid |-> valid, reason |-> reason, tokenData |-> data]
      NoData == [filePath |-> <<>>, userId |-> <<>>, expiresAt |-> 0, remainingTime |-> 0]
  IN
  /\ res.op = "none"
  /\ UNCHANGED <<now, issued, expiredSeen, ticks, sweep>>
  /\ IF Falsy(token)
       THEN /\ res' = Reply(400, FALSE, "Missing token parameter", NoData)
            /\ UNCHANGED urlStore
     ELSE IF token.val \notin DOMAIN urlStore
       THEN /\ res' = Reply(200, FALSE, "Token not found", NoData)
            /\ UNCHANGED urlStore
     ELSE IF ValidateExpired(urlStore[token.val], currentTime)
       THEN /\ res' = Reply(200, FALSE, "Token expired", NoData)
            /\ urlStore' = MapDelete(urlStore, token.val)
     ELSE /\ res' = Reply(200, TRUE, "none",
                          [filePath      |-> urlStore[token.val].filePath,
                           userId        |-> urlStore[token.val].userId,
                           expiresAt     |-> urlStore[token.val].expires,
                           remainingTime |-> urlStore[token.val].expires - currentTime])
          /\ UNCHANGED urlStore

\* faulty variant: an entry that expires in the current second is not counted
StrictStatsActive(value, currentTime) == value.expires > currentTime

\* the test of the stats loop: value.expires >= currentTime
StatsActive(value, currentTime) == value.expires >= currentTime

\* GET /api/stats
Stats ==
  LET currentTime == FloorSeconds(now)
  IN /\ res.op = "none"
     /\ res' = [op |-> "stats", status |-> 200,
                totalTokensGenerated |-> Cardinality(DOMAIN urlStore),
                activeTokens |-> Cardinality({t \in DOMAIN urlStore :
                                                StatsActive(urlStore[t], currentTime)})]
     /\ UNCHANGED <<urlStore, now, issued, expiredSeen, ticks, sweep>>

\* the response has been sent; the server takes up the next request
Respond ==
  /\ res.op # "none"
  /\ res' = [op |-> "none"]
  /\ UNCHANGED <<urlStore, now, issued, expiredSeen, ticks, sweep>>

\* the wall clock advances between two handlers
Tick(d) ==
  /\ res.op = "none"
  /\ ticks < MaxTicks
  /\ now' = now + d
  /\ ticks' = ticks + 1
  /\ UNCHANGED <<urlStore, issued, expiredSeen, res, sweep>>

\* the entropy outcomes and clock delays a mint request can meet: a request
\* that fails validation returns before it reads either
MintEntropy(filePath, userId, given) ==
  IF MintValidation(filePath, userId).kind = "Ok" THEN EntropyOutcomes(given)
  ELSE {EntropyFailure}

MintDelays(filePath, userId, entropy) ==
  IF MintValidation(filePath, userId).kind = "Ok" /\ entropy.ok THEN InCallDelays
  ELSE {<<0, 0>>}

(* --------------------------- the state machine -------------------------- *)

\* the empty Map
EmptyMap == [t \in {} |-> 0]

\* the instants at which the server may start, in ms: half a second past a
\* full second
StartTimes == {500}

\* new Map() at line 238
Init ==
  /\ urlStore = EmptyMap
  /\ now \in StartTimes
  /\ issued = EmptyMap
  /\ expiredSeen = {}
  /\ ticks = 0
  /\ res = [op |-> "none"]
  /\ sweep = [pc |-> "idle"]

\* a request arrives at one of the endpoints while the server is idle
MintStep ==
  /\ res.op = "none"
  /\ \E filePath \in MintPaths, userId \in MintUsers :
       \E entropy \in MintEntropy(filePath, userId, DOMAIN issued) :
         \E d \in MintDelays(filePath, userId, entropy) :
           GenerateSignedUrl(filePath, userId, entropy, d[1], d[2])

MediaStep ==
  /\ res.op = "none"
  /\ \E q \in MediaRequests(issued) : Media(q.token, q.expires, q.userId, q.path)

ValidateStep ==
  /\ res.op = "none"
  /\ \E token \in TokenParams(DOMAIN issued) : ValidateToken(token)

TickStep == \E d \in TickSteps : Tick(d)

Next ==
  \/ MintStep
  \/ MediaStep
  \/ ValidateStep
  \/ Stats
  \/ Respond
  \/ TickStep

Spec == Init /\ [][Next]_vars

(* ------------------- the cleanup loop, step by step -------------------- *)

\* The loop of lines 320-324 iterates urlStore.entries() and deletes from
\* urlStore inside the iteration.  A Map keeps its entries in a list in
\* insertion order; delete() empties the slot of an entry and leaves the list
\* as long as it is, and the iterator walks the list by index and skips the
\* emptied slots.  sweep.list is that list (the keys), sweep.idx the index of
\* the iterator, sweep.visited the number of loop bodies run, sweep.start the
\* Map at the start of the loop.

\* the keys of the Map the loop runs over: the older entries and, last, the
\* entry the mint has just set at line 311
SweepKeys == [k \in 1..(MaxSwept + 1) |->
                generateToken([i \in 1..TokenBytes |-> (37 * k + i) % 256])]

\* the instants at which the loop reads the clock (line 319), in ms, and the
\* expires values of the older entries, around those instants
SweepTimes == {120500, 121000}

SweepExpiries == {119, 120, 121}

\* the orders in which the keys S can have been inserted
InsertionOrders(S) ==
  {o \in [1..Cardinality(S) -> S] : \A k \in S : \E i \in DOMAIN o : o[i] = k}

\* the Map at the start of the loop: some older entries and the new entry,
\* which expires TtlSeconds after the second the mint began in
SweepStart(older, expiry, ms) ==
  [t \in older \cup {SweepKeys[MaxSwept + 1]} |->
     IF t = SweepKeys[MaxSwept + 1]
       THEN MintEntry(<<"/","a",".","m","p","4">>, <<"u","_","1">>,
                      getExpiryTimestamp(ms), ms)
       ELSE MintEntry(<<"/","a",".","m","p","4">>, <<"u","_","1">>,
                      expiry[t], (expiry[t] - TtlSeconds) * MsPerSec)]

\* the mint has reached line 319 with the new entry set
SweepInit ==
  /\ now \in SweepTimes
  /\ \E older \in SUBSET {SweepKeys[k] : k \in 1..MaxSwept} :
       \E expiry \in [older -> SweepExpiries] :
         \E o \in InsertionOrders(older) :
           /\ urlStore = SweepStart(older, expiry, now)
           /\ sweep = [pc |-> "loop", list |-> o \o <<SweepKeys[MaxSwept + 1]>>,
                       idx |-> 0, visited |-> 0,
                       start |-> SweepStart(older, expiry, now)]
  /\ res = [op |-> "none"]
  /\ issued = EmptyMap
  /\ expiredSeen = {}
  /\ ticks = 0

\* faulty variant: the iteration starts again from the first slot after a
\* delete
RestartingSweepVisit ==
  /\ sweep.pc = "loop"
  /\ sweep.idx < Len(sweep.list)
  /\ LET key == sweep.list[sweep.idx + 1]
         currentTime == FloorSeconds(now)
     IN IF key \notin DOMAIN urlStore
          THEN /\ sweep' = [sweep EXCEPT !.idx = @ + 1]
               /\ UNCHANGED urlStore
        ELSE IF SweepDeletes(urlStore[key], currentTime)
          THEN /\ urlStore' = MapDelete(urlStore, key)
               /\ sweep' = [sweep EXCEPT !.idx = 0, !.visited = @ + 1]
        ELSE /\ sweep' = [sweep EXCEPT !.idx = @ + 1, !.visited = @ + 1]
             /\ UNCHANGED urlStore
  /\ UNCHANGED <<now, res, issued, expiredSeen, ticks>>

\* one step of the iterator: the next slot is skipped when it was emptied,
\* otherwise the loop body (lines 321-323) runs on its entry
SweepVisit ==
  /\ sweep.pc = "loop"
  /\ sweep.idx < Len(sweep.list)
  /\ LET key == sweep.list[sweep.idx + 1]
         currentTime == FloorSeconds(now)
     IN IF key \notin DOMAIN urlStore
          THEN /\ sweep' = [sweep EXCEPT !.idx = @ + 1]
               /\ UNCHANGED urlStore
        ELSE IF SweepDeletes(urlStore[key], currentTime)
          THEN /\ urlStore' = MapDelete(urlStore, key)
               /\ sweep' = [sweep EXCEPT !.idx = @ + 1, !.visited = @ + 1]
        ELSE /\ sweep' = [sweep EXCEPT !.idx = @ + 1, !.visited = @ + 1]
             /\ UNCHANGED urlStore
  /\ UNCHANGED <<now, res, issued, expiredSeen, ticks>>

\* the iterator is past the last slot: the loop ends and the handler sends
\* its response (lines 327-337)
SweepReturn ==
  /\ sweep.pc = "loop"
  /\ sweep.idx = Len(sweep.list)
  /\ sweep' = [sweep EXCEPT !.pc = "done"]
  /\ res' = [op |-> "mint", status |-> 200, kind |-> "Minted",
             token |-> SweepKeys[MaxSwept + 1]]
  /\ UNCHANGED <<urlStore, now, issued, expiredSeen, ticks>>

SweepNext ==
  \/ SweepVisit
  \/ SweepReturn

\* the handler runs on once it has started: Node does not preempt it
SweepSpec == SweepInit /\ [][SweepNext]_vars /\ WF_vars(SweepNext)

TypeOK ==
  /\ DOMAIN urlStore \subseteq TokenPool
  /\ DOMAIN issued \subseteq TokenPool
  /\ DOMAIN urlStore \subseteq DOMAIN issued
  /\ expiredSeen \subseteq DOMAIN issued
  /\ now \in Nat
  /\ ticks \in 0..MaxTicks

(* ------------------------------ properties ------------------------------ *)

\* the token a redeem response answers, and the entry stored for it
RedeemToken(r) == r.req.token.val

\* a media request that carries token, expires and userId
WellFormed(req) == ~Falsy(req.token) /\ ~Falsy(req.expires) /\ ~Falsy(req.userId)

\* the media request made of the signed URL a mint response returned
SignedUrlRedeem(store, ms, r) ==
  MediaResult(store, ms, Param(r.token), Param(NumToStr(r.expiresAt)),
              Param(r.userId), MediaPrefix \o r.filePath)

\* C1: redeem never answers Granted for a token whose stored expires is
\* before the current time, whatever the request carries
C1_NoGrantAfterExpiry ==
  (res.op = "redeem" /\ res.kind = "Granted")
    => FloorSeconds(now) <= urlStore[RedeemToken(res)].expires

\* the expires parameter of the signed URL the mint of token t returned
SignedExpires(t) == Param(NumToStr(issued[t]))

C3_RoundTrip ==
  (res.op = "mint" /\ res.kind = "Minted")
    => LET r == SignedUrlRedeem(urlStore, now, res).res
       IN /\ r.kind = "Granted"
          /\ ~r.remaining.nan
          /\ r.remaining.val > 0
          /\ r.remaining.val <= TtlSeconds

\* C3 witness: a mint during which the clock passed a full second, so that
\* the immediate redeem is granted 119 seconds
C3_Witness ==
  /\ res.op = "mint"
  /\ res.kind = "Minted"
  /\ SignedUrlRedeem(urlStore, now, res).res.kind = "Granted"
  /\ SignedUrlRedeem(urlStore, now, res).res.remaining = Num(TtlSeconds - 1)

\* C4: a redeem of a stored, unexpired token with another resource or another
\* requester is answered BindingMismatch and leaves the Store as it is
C4_BindingIntegrity ==
  [][ ( /\ res.op = "none"
        /\ res'.op = "redeem"
        /\ WellFormed(res'.req)
        /\ RedeemToken(res') \in DOMAIN urlStore
        /\ FloorSeconds(now) <= urlStore[RedeemToken(res')].expires
        /\ \/ urlStore[RedeemToken(res')].filePath # res'.req.filePath
           \/ urlStore[RedeemToken(res')].userId # res'.req.userId.val )
      => (res'.kind = "BindingMismatch" /\ urlStore' = urlStore) ]_vars

\* C5: the mint endpoint reports the first failing check in the order
\* resource present, requester present, resource shape, requester shape
C5_ValidationOrder ==
  res.op = "mint" =>
    LET f == res.req.filePath
        u == res.req.userId
    IN IF Falsy(f) THEN res.kind = "MissingField" /\ res.field = "filePath"
       ELSE IF Falsy(u) THEN res.kind = "MissingField" /\ res.field = "userId"
       ELSE IF ~isValidFilePath(f.val) THEN res.kind = "InvalidFormat" /\ res.field = "filePath"
       ELSE IF ~isValidUserId(u.val) THEN res.kind = "InvalidFormat" /\ res.field = "userId"
       ELSE res.kind \in {"Minted", "InternalError"}

\* C5 witness: a request whose resource and requester both have a wrong
\* shape was answered InvalidFormat(resource)
C5_Witness ==
  /\ res.op = "mint"
  /\ ~Falsy(res.req.filePath)
  /\ ~Falsy(res.req.userId)
  /\ ~isValidFilePath(res.req.filePath.val)
  /\ ~isValidUserId(res.req.userId.val)
  /\ res.kind = "InvalidFormat"
  /\ res.field = "filePath"

\* a mint request that fails one of the four checks
FailsValidation(req) ==
  \/ Falsy(req.filePath)
  \/ Falsy(req.userId)
  \/ ~isValidFilePath(req.filePath.val)
  \/ ~isValidUserId(req.userId.val)

\* C6: a mint request that fails a check is answered with a validation
\* failure and the Store afterwards is the Store before
C6_RejectedMintKeepsStore ==
  [][ (res.op = "none" /\ res'.op = "mint" /\ FailsValidation(res'.req))
      => (res'.status = 400 /\ urlStore' = urlStore) ]_vars

\* C6 witness: a mint was rejected while the Store held an expired entry,
\* which a sweep would have removed
C6_Witness ==
  /\ res.op = "mint"
  /\ res.status = 400
  /\ \E t \in DOMAIN urlStore : urlStore[t].expires < FloorSeconds(now)

\* C7: after a successful mint the Store maps the returned token to the
\* requested resource and requester and to the returned expiresAt
C7_MintPostcondition ==
  (res.op = "mint" /\ res.kind = "Minted")
    => /\ res.token \in DOMAIN urlStore
       /\ urlStore[res.token].filePath = res.req.filePath.val
       /\ urlStore[res.token].userId = res.req.userId.val
       /\ urlStore[res.token].expires = res.expiresAt

\* C7 witness: a successful mint whose sweep removed an older entry
C7_Witness ==
  /\ res.op = "mint"
  /\ res.kind = "Minted"
  /\ res.token \in DOMAIN urlStore
  /\ DOMAIN issued # DOMAIN urlStore

\* C8: every stored binding expires 120 seconds after the second of its
\* creation instant
C8_ExpiryOffset ==
  \A t \in DOMAIN urlStore :
    urlStore[t].expires = FloorSeconds(urlStore[t].createdAt) + TtlSeconds

\* C10: an entry that is in the Store before and after a step has the same
\* binding before and after
C10_BindingImmutable ==
  [][ \A t \in (DOMAIN urlStore) \cap (DOMAIN urlStore') : urlStore'[t] = urlStore[t] ]_vars

\* C10 witness: a second mint has happened while the first entry is stored
C10_Witness ==
  /\ res.op = "mint"
  /\ res.kind = "Minted"
  /\ Cardinality(DOMAIN urlStore) = 2

\* C11: an entry leaves the Store only in a step at whose clock reading its
\* stored expires is before the current time; this holds for the redeem, for
\* validate-token and for the sweep of a mint
C11_RemovedOnlyWhenExpired ==
  [][ \A t \in (DOMAIN urlStore) \ (DOMAIN urlStore') :
        urlStore[t].expires < FloorSeconds(now') ]_vars

\* C12: a redeem decides in the order MissingParameters (token or requester
\* absent; the route always supplies the resource), TokenNotFound,
\* TokenExpired with eviction (the stored expires is before the current
\* time), BindingMismatch, Granted, and answers with exactly that outcome
C12_DecisionOrder ==
  [][ (res.op = "none" /\ res'.op = "redeem")
      => LET q == res'.req
             t == q.token.val
         IN IF Falsy(q.token) \/ Falsy(q.userId)
              THEN res'.kind = "MissingParameters"
            ELSE IF t \notin DOMAIN urlStore
              THEN res'.kind = "TokenNotFound"
            ELSE IF FloorSeconds(now) > urlStore[t].expires
              THEN res'.kind = "TokenExpired" /\ t \notin DOMAIN urlStore'
            ELSE IF MediaMismatch(urlStore[t], q.filePath, q.userId.val)
              THEN res'.kind = "BindingMismatch"
            ELSE res'.kind = "Granted" ]_vars

C14_TotalCountsMints ==
  res.op = "stats" => res.totalTokensGenerated = Cardinality(DOMAIN issued)

\* C15: the activeTokens of a stats response is the number of entries whose
\* expires is not before the current time, and stats leaves the Store as it is
C15_ActiveCount ==
  [][ (res.op = "none" /\ res'.op = "stats")
      => /\ res'.activeTokens =
              Cardinality({t \in DOMAIN urlStore :
                             ~(urlStore[t].expires < FloorSeconds(now))})
         /\ urlStore' = urlStore ]_vars

\* C15 witness: stats counted one of two entries, the other one has expired
\* and the counted one expires in the current second
C15_Witness ==
  /\ res.op = "stats"
  /\ Cardinality(DOMAIN urlStore) = 2
  /\ res.activeTokens = 1
  /\ \E t \in DOMAIN urlStore : urlStore[t].expires = FloorSeconds(now)

\* C16: no entry of the Store has an empty filePath or an empty userId
C16_NoEmptyBinding ==
  \A t \in DOMAIN urlStore : urlStore[t].filePath # <<>> /\ urlStore[t].userId # <<>>

\* C16 witness: a mint without userId was answered while the Store holds an
\* entry
C16_Witness ==
  /\ res.op = "mint"
  /\ ~Falsy(res.req.filePath)
  /\ Falsy(res.req.userId)
  /\ DOMAIN urlStore # {}

\* C17: a mint that passes the checks and returns no token (generateToken
\* threw) is answered 500 InternalError, which no failed check is answered
\* with, and leaves the Store as it is; a token is returned and stored only
\* when it was made of a buffer the entropy source delivered
C17_EntropyFailure ==
  [][ (res.op = "none" /\ res'.op = "mint")
      => IF res'.kind = "Minted"
           THEN /\ res'.token \in TokenPool
                /\ (DOMAIN urlStore') \ (DOMAIN urlStore) \subseteq {res'.token}
           ELSE /\ urlStore' = urlStore
                /\ issued' = issued
                /\ "token" \notin DOMAIN res'
                /\ IF FailsValidation(res'.req)
                     THEN res'.status = 400 /\ res'.kind \in {"MissingField", "InvalidFormat"}
                     ELSE res'.status = 500 /\ res'.kind = "InternalError" ]_vars

\* C17 witness: generateToken threw in a mint that passed the checks, while
\* the Store holds an entry
C17_Witness ==
  /\ res.op = "mint"
  /\ res.kind = "InternalError"
  /\ ~FailsValidation(res.req)
  /\ DOMAIN urlStore # {}

\* C18: in every state a token whose mint has completed and whose expires is
\* not before the current time is a key of the Store, so that a redeem of it
\* that begins in that state finds its entry and is not answered
\* TokenNotFound
C18_MintedIsVisible ==
  \A t \in DOMAIN issued : FloorSeconds(now) <= issued[t] => t \in DOMAIN urlStore

\* C19: an entry enters the Store in the step of one mint, with the four
\* fields filePath, userId, expires and createdAt that this mint was asked
\* for, returned and read from the clock, and no step changes a field of an
\* entry that stays in the Store
C19_NoTornBinding ==
  [][ /\ \A t \in (DOMAIN urlStore') \ (DOMAIN urlStore) :
           /\ res.op = "none"
           /\ res'.op = "mint"
           /\ res'.kind = "Minted"
           /\ t = res'.token
           /\ DOMAIN urlStore'[t] = {"filePath", "userId", "expires", "createdAt"}
           /\ urlStore'[t].filePath = res'.req.filePath.val
           /\ urlStore'[t].userId = res'.req.userId.val
           /\ urlStore'[t].expires = res'.expiresAt
           /\ urlStore'[t].createdAt \in now..now'
      /\ \A t \in (DOMAIN urlStore') \cap (DOMAIN urlStore) :
           urlStore'[t] = urlStore[t] ]_vars

\* C19 witness: the Store holds the entries of two mints for different files
C19_Witness ==
  \E t, u \in DOMAIN urlStore : urlStore[t].filePath # urlStore[u].filePath

\* C20: after a successful mint, with the current time its cleanup loop read,
\* no entry of the Store has an expires before the current time, every entry
\* that was stored and not expired is stored unchanged, the new entry is
\* stored, and the size is the number of those entries plus one
C20_MintSweep ==
  [][ (res.op = "none" /\ res'.op = "mint" /\ res'.kind = "Minted")
      => LET currentTime == FloorSeconds(now')
             live == {t \in DOMAIN urlStore : ~(urlStore[t].expires < currentTime)}
         IN /\ \A t \in DOMAIN urlStore' : ~(urlStore'[t].expires < currentTime)
            /\ \A t \in live : t \in DOMAIN urlStore' /\ urlStore'[t] = urlStore[t]
            /\ res'.token \in DOMAIN urlStore'
            /\ Cardinality(DOMAIN urlStore') = Cardinality(live) + 1 ]_vars

\* C20 witness: the sweep of a mint kept an older entry that expires in the
\* current second
C20_Witness ==
  /\ res.op = "mint"
  /\ res.kind = "Minted"
  /\ \E t \in DOMAIN urlStore : t # res.token /\ urlStore[t].expires = FloorSeconds(now)

\* C21: the cleanup loop of a mint, which deletes from the Store while it
\* iterates over it, ends; it runs its body at most once per entry the Store
\* had at its start; when it has ended the Store is the start Store without
\* the expired entries and the mint has sent its one response
C21_SweepTerminates ==
  /\ <>(sweep.pc = "done")
  /\ [](sweep.visited <= Cardinality(DOMAIN sweep.start))
  /\ [](sweep.pc = "loop" => res.op = "none")
  /\ [](sweep.pc = "done" => /\ res.op = "mint"
                             /\ sweep.visited = Cardinality(DOMAIN sweep.start)
                             /\ urlStore = SweepExpired(sweep.start, FloorSeconds(now)))

\* C21 witness: the loop has ended after deleting two or more entries during
\* the iteration, among them the first of the list
C21_Witness ==
  /\ sweep.pc = "done"
  /\ Cardinality(DOMAIN sweep.start) - Cardinality(DOMAIN urlStore) >= 2
  /\ sweep.list[1] \notin DOMAIN urlStore

\* C22: validate-token with a token that is not a key of the Store answers
\* invalid, 'Token not found', and changes nothing; with a stored token whose
\* expires is before the current time it deletes that entry and answers
\* invalid, 'Token expired'; otherwise it answers valid with the stored
\* filePath, userId and expires and remainingTime = expires - now >= 0 and
\* changes nothing
C22_ValidateToken ==
  [][ (res.op = "none" /\ res'.op = "validate" /\ ~Falsy(res'.req.token))
      => LET t == res'.req.token.val
             currentTime == FloorSeconds(now)
         IN IF t \notin DOMAIN urlStore
              THEN /\ ~res'.valid
                   /\ res'.reason = "Token not found"
                   /\ urlStore' = urlStore
            ELSE IF urlStore[t].expires < currentTime
              THEN /\ ~res'.valid
                   /\ res'.reason = "Token expired"
                   /\ urlStore' = MapDelete(urlStore, t)
            ELSE /\ res'.valid
                 /\ res'.tokenData.filePath = urlStore[t].filePath
                 /\ res'.tokenData.userId = urlStore[t].userId
                 /\ res'.tokenData.expiresAt = urlStore[t].expires
                 /\ res'.tokenData.remainingTime = urlStore[t].expires - currentTime
                 /\ res'.tokenData.remainingTime >= 0
                 /\ urlStore' = urlStore ]_vars

\* C22 witness: validate-token answered valid with remainingTime 0 for a
\* token that expires in the current second
C22_Witness ==
  /\ res.op = "validate"
  /\ res.valid
  /\ res.tokenData.remainingTime = 0

\* C23: the response and the Store change of a redeem are the same for every
\* expires value the request could have carried with the same token, path and
\* userId
C23_ExpiresIrrelevant ==
  [][ (res.op = "none" /\ res'.op = "redeem" /\ WellFormed(res'.req))
      => \A e \in ExpiresParams(issued) \ {Absent} :
           LET r == MediaResult(urlStore, now, res'.req.token, e, res'.req.userId,
                                MediaPrefix \o res'.req.filePath)
           IN r.res.kind = res'.kind /\ r.store = urlStore' ]_vars

\* C24: a redeem that answers TokenExpired changes the Store by deleting the
\* entry of the presented token and nothing else; a redeem with any other
\* outcome leaves the Store as it is
C24_RedeemFrame ==
  [][ (res.op = "none" /\ res'.op = "redeem")
      => IF res'.kind = "TokenExpired"
           THEN urlStore' = MapDelete(urlStore, RedeemToken(res'))
           ELSE urlStore' = urlStore ]_vars

\* C25: for every entry of the Store the four operations agree with
\* now <= expires: stats counts it, the cleanup loop keeps it, validate-token
\* does not call it expired, and a redeem with its filePath and userId is
\* Granted, whatever expires value the request carries, exactly when the
\* current time is not after its expires
C25_BoundaryAgreement ==
  \A t \in DOMAIN urlStore :
    LET currentTime == FloorSeconds(now)
        live == currentTime <= urlStore[t].expires
    IN /\ StatsActive(urlStore[t], currentTime) = live
       /\ (~SweepDeletes(urlStore[t], currentTime)) = live
       /\ (~ValidateExpired(urlStore[t], currentTime)) = live
       /\ \A e \in ExpiresParams(issued) \ {Absent} :
            (MediaResult(urlStore, now, Param(t), e, Param(urlStore[t].userId),
                         MediaPrefix \o urlStore[t].filePath).res.kind = "Granted") = live

\* the outcome of redeeming the signed URL of the stored token t at time ms
SignedUrlOutcome(store, ms, t) ==
  MediaResult(store, ms, Param(t), Param(NumToStr(store[t].expires)),
              Param(store[t].userId), MediaPrefix \o store[t].filePath).res.kind

\* C26: a successful mint adds an entry under a token that was not a key and
\* leaves every entry that has not expired as it is, also one with the same
\* filePath and userId; a redeem or validate-token of one token leaves the
\* entry of every other token as it is; and a token left this way is still
\* Granted on its signed URL while the current time is not after its expires
C26_IndependentTokens ==
  [][ (res.op = "none" /\ res'.op \in {"mint", "redeem", "validate"})
      => /\ \A t \in DOMAIN urlStore :
              (IF res'.op = "mint"
                 THEN ~(urlStore[t].expires < FloorSeconds(now'))
                 ELSE t # res'.req.token.val)
              => /\ t \in DOMAIN urlStore'
                 /\ urlStore'[t] = urlStore[t]
                 /\ FloorSeconds(now') <= urlStore[t].expires
                      => SignedUrlOutcome(urlStore', now', t) = "Granted"
         /\ (res'.op = "mint" /\ res'.kind = "Minted")
              => /\ res'.token \notin DOMAIN urlStore
                 /\ res'.token \in DOMAIN urlStore' ]_vars

\* C26 witness: of two tokens stored for the same filePath and userId one
\* was redeemed and evicted, the other one is still stored
C26_Witness ==
  /\ res.op = "redeem"
  /\ res.kind = "TokenExpired"
  /\ RedeemToken(res) \notin DOMAIN urlStore
  /\ \E t \in DOMAIN urlStore :
       /\ urlStore[t].filePath = res.req.filePath
       /\ urlStore[t].userId = res.req.userId.val

====
